---- MODULE Spec2Model ----
(***************************************************************************)
(* Model of the SnapMirror cutover scripts of na_dbbackup.                 *)
(*                                                                         *)
(* One invocation of one script is modelled per behaviour: Init picks the  *)
(* script, every action is one request (or one host command) of that       *)
(* script together with the control flow that follows it.  The storage     *)
(* controller is the environment: every request may fail, and every read   *)
(* returns any value of the state vocabulary.                              *)
(***************************************************************************)
EXTENDS Integers, Sequences, FiniteSets, TLC

(* ------------------------------------------------------------------ *)
(* Program constants and bounds                                        *)
(* ------------------------------------------------------------------ *)

\* max_attempts = 24 in every bounded polling loop of na_dbbackup_v2
max_attempts == 24

\* cap on the number of polls followed in the unbounded loop of
\* na_dbbackup_v1.update_snapmirror (above max_attempts on purpose)
MaxPollsV1 == 26

\* largest number of parent volumes given to clone_lun
MaxVols == 2

\* largest number of LUNs under a volume
MaxLuns == 2

\* largest number of initiator groups given to clone_lun
MaxIgroups == 2

\* largest number of relationships the controller holds
MaxRels == 3

\* number of calls of mount_volume made in a row
MaxCalls == 2

(* ------------------------------------------------------------------ *)
(* Vocabulary of the controller                                        *)
(* ------------------------------------------------------------------ *)

RelStates == {"snapmirrored", "quiesced", "paused", "broken_off",
              "transferring", "uninitialized"}

TransferStates == {"none", "transferring", "success", "failed"}

JobStates == {"queued", "running", "success", "failure"}

\* the ways a request can fail (HTTP error status or transport error)
ReqFailures == {"Conflict", "Transient", "NotFound"}

Scripts == {"na_dbbackup_v2", "na_dbbackup_v1", "na_oracle_dbbackup_v7",
            "na_oracle_dbbackup_v3", "lun_clone_test_v1",
            "create_clone", "mount_volume",
            "break_snapmirror_v1", "clone_lun_v7",
            "resolve_relationship", "delete_clone"}

\* the steps of main() of na_dbbackup_v2, in call order
StepOrder == <<"validate_source_volume", "get_destination_path",
               "update_snapmirror", "break_snapmirror", "scan_iscsi",
               "refresh_multipath", "mount_volume">>

Steps == {StepOrder[i] : i \in 1..Len(StepOrder)}

\* program position at which each step of main() begins
EntryPc(step) ==
    CASE step = "validate_source_volume" -> "validate"
      [] step = "get_destination_path"   -> "get_destination_path"
      [] step = "update_snapmirror"      -> "update_lookup"
      [] step = "break_snapmirror"       -> "break_lookup"
      [] step = "scan_iscsi"             -> "scan_iscsi"
      [] step = "refresh_multipath"      -> "refresh_multipath"
      [] step = "mount_volume"           -> "mount_volume"

StepIndex(step) == CHOOSE i \in 1..Len(StepOrder) : StepOrder[i] = step

(* ------------------------------------------------------------------ *)
(* State                                                               *)
(* ------------------------------------------------------------------ *)

VARIABLES
    script,          \* which script this invocation runs
    pc,              \* position in the script
    attempt,         \* loop counter of the polling loop being run
    rel_state,       \* update_snapmirror: last relationship state read
    transfer_state,  \* update_snapmirror: last transfer state read
    current_state,   \* break/quiesce_snapmirror: last relationship state read
    job_id,          \* whether the last PATCH response carried a job uuid
    job_state,       \* last job state read
    result,          \* return value of each step of main()
    quiesce_ret,     \* return value of quiesce_snapmirror
    error,           \* why the failing step failed
    \* ---- history of the requests issued (not program state) ----
    started,         \* steps of main() in the order they were started
    failed,          \* some step has returned failure
    transferPosts,   \* number of transfer POSTs issued
    quiescePatches,  \* number of {"state": "quiesced"} PATCHes issued
    breakPatches,    \* number of {"state": "broken_off"} PATCHes issued
    snapmirroredRead,\* a read returned 'snapmirrored' before the transfer POST
    break_initial,   \* state returned by the lookup of break_snapmirror
    quiescedSeen,    \* a read after the quiesce PATCH returned 'quiesced'
    brokenSeen,      \* a read after the break PATCH returned 'broken_off'
    jobReads,        \* job-status reads issued by the current job loop
    firstTerminal,   \* poll on which the job first showed a terminal state
    jobLoopDone,     \* the current job loop has exited (not by an exception)
    statePolls,      \* relationship reads issued by the current state loop
    mountCmds,       \* number of mount commands issued
    \* ---- clone-and-remap scripts: arguments ----
    nVols,           \* number of parent volumes in args.volume_name
    nParent,         \* number of online LUNs under each parent volume
    nClone,          \* number of LUNs of a clone volume
    nIgroups,        \* number of initiator groups in args.igroup_name
    \* ---- clone-and-remap scripts: program state ----
    vol,             \* index of the parent volume being processed
    pl,              \* index of the parent LUN being processed
    cl,              \* position in clone_list of the clone LUN being processed
    ig,              \* index of the initiator group being mapped
    clone_list,      \* clone LUNs returned by the last clone LUN query
    parent_serial_number, \* serial read from the parent LUN
    clone_lun_state, \* state last read from the clone LUN
    \* ---- clone-and-remap scripts: the controller ----
    clone_exists,    \* a volume with the clone name exists
    lun_online,      \* clone LUN -> it is online
    lun_serial,      \* clone LUN -> its serial number
    lun_maps,        \* set of <<clone LUN, initiator group>> mappings
    \* ---- clone-and-remap scripts: history ----
    offlineRead,     \* a read after the last offline PATCH showed offline
    serialPatches,   \* number of serial-number PATCHes issued
    mapPosts,        \* number of mapping create requests issued
    dupMapPosts,     \* ... of which for a pair that was already mapped
    rewritten,       \* clone LUNs put back online after a serial rewrite
    \* ---- create_clone (na_oracle_dbbackup, na_oracle_dbbackup_v7) ----
    args,            \* the parsed arguments create_clone is called with
    now,             \* value of datetime.now()
    clone_name,      \* name chosen for the clone
    posted,          \* body of the volume create request that was sent
    \* ---- mount_volume called twice in a row on one host ----
    mp_exists,       \* os.path.exists(mount_point)
    mp_mounted,      \* os.path.ismount(mount_point)
    mountRets,       \* return values of the calls made so far
    \* ---- clone_lun (na_oracle_dbbackup_v7): history ----
    tried,           \* volumes whose break request was sent
    broken,          \* volumes whose break request was answered with 200
    hosted,          \* volumes for which a host command was run
    \* ---- the relationship lookups of na_dbbackup_v2 ----
    rels,            \* relationships the controller holds
    source_path,     \* source path built from the arguments
    destination_path,\* value returned by get_destination_path
    update_uuid,     \* uuid resolved by update_snapmirror
    break_uuid,      \* uuid resolved by break_snapmirror
    \* ---- delete_clone (na_oracle_dbbackup, na_oracle_dbbackup_v7) ----
    volume,          \* what the name volume is bound to
    is_flexclone,    \* clone.is_flexclone of the volume read
    deletes,         \* number of delete requests sent
    reported         \* 'Selected Volume is not a Clone' was printed

prog == <<script, pc, attempt, rel_state, transfer_state, current_state,
          job_id, job_state, result, quiesce_ret, error>>

hist == <<started, failed, transferPosts, quiescePatches, breakPatches,
          snapmirroredRead, break_initial, quiescedSeen,
          brokenSeen, jobReads, firstTerminal, jobLoopDone, statePolls,
          mountCmds>>

cloneArgs == <<nVols, nParent, nClone, nIgroups>>
cloneProg == <<vol, pl, cl, ig, clone_list, parent_serial_number,
               clone_lun_state>>
controller == <<clone_exists, lun_online, lun_serial, lun_maps>>
cloneHist == <<offlineRead, serialPatches, mapPosts, dupMapPosts, rewritten>>
cloneVars == <<cloneArgs, cloneProg, controller, cloneHist>>

createVars == <<args, now, clone_name, posted>>
hostVars == <<mp_exists, mp_mounted, mountRets>>
lunVars == <<tried, broken, hosted>>
lookupVars == <<rels, source_path, destination_path, update_uuid, break_uuid>>
delVars == <<volume, is_flexclone, deletes, reported>>
moreVars == <<lookupVars, delVars>>
toolVars == <<createVars, hostVars, lunVars, moreVars>>

vars == <<prog, hist, cloneVars, toolVars>>

\* groups left alone by most actions
locals == <<rel_state, transfer_state, current_state, job_id, job_state>>
requests == <<transferPosts, quiescePatches, breakPatches>>
observed == <<snapmirroredRead, break_initial, quiescedSeen, brokenSeen>>
jobHist == <<jobReads, firstTerminal, jobLoopDone>>

(* ------------------------------------------------------------------ *)
(* Initial state                                                       *)
(* ------------------------------------------------------------------ *)

StartPc(s) ==
    CASE s = "na_dbbackup_v2"        -> "validate"
      [] s = "na_dbbackup_v1"        -> "v1_update_lookup"
      [] s = "na_oracle_dbbackup_v7" -> "v7_list_sources"
      [] s = "na_oracle_dbbackup_v3" -> "v3_clone_post"
      [] s = "lun_clone_test_v1"     -> "t1_volume_find"
      [] s = "create_clone"          -> "create_clone_name"
      [] s = "mount_volume"          -> "mount_call"
      [] s = "break_snapmirror_v1"   -> "v1_break_lookup"
      [] s = "clone_lun_v7"          -> "v7_break_post"
      [] s = "resolve_relationship"  -> "resolve_destination"
      [] s = "delete_clone"          -> "delete_clone_find"

\* serial number the controller gave clone LUN c when the clone was made
CSerial(c) == <<"clone", c>>

\* serial number of LUN p of parent volume v
PSerial(v, p) == <<"parent", v, p>>

\* the clone-and-remap scripts start with their arguments chosen and with
\* the LUNs of the clone as the controller creates them: online, with a
\* serial of their own, not mapped.  lun_clone_test_v1 handles one LUN
\* and one initiator group.
CloneInit ==
    /\ IF script = "na_oracle_dbbackup_v3"
       THEN /\ nVols \in 1..MaxVols
            /\ nParent \in 0..MaxLuns
            /\ nClone \in 0..MaxLuns
            /\ nIgroups \in 1..MaxIgroups
       ELSE IF script = "lun_clone_test_v1"
            THEN nVols = 1 /\ nParent = 1 /\ nClone = 1 /\ nIgroups = 1
            ELSE IF script = "clone_lun_v7"
                 THEN /\ nVols \in 1..MaxVols
                      /\ nParent = 0 /\ nClone = 0 /\ nIgroups = 0
                 ELSE nVols = 0 /\ nParent = 0 /\ nClone = 0 /\ nIgroups = 0
    /\ vol = 1 /\ pl = 1 /\ cl = 1 /\ ig = 1
    /\ clone_list = <<>>
    /\ parent_serial_number = <<"unset">>
    /\ clone_lun_state = "unread"
    /\ clone_exists = FALSE
    /\ lun_online = [c \in 1..nClone |-> TRUE]
    /\ lun_serial = [c \in 1..nClone |-> CSerial(c)]
    /\ lun_maps = {}
    /\ offlineRead = FALSE
    /\ serialPatches = 0
    /\ mapPosts = 0
    /\ dupMapPosts = 0
    /\ rewritten = {}

\* a clone name not supplied (args.clone_name is None or '')
NoName == <<>>

\* no volume create request has been sent
NoRequest == [name |-> NoName, parent_volume |-> "none",
              parent_snapshot |-> "none"]

\* values datetime.now() can return: the ends of each field's range, so
\* that one-digit and two-digit fields both occur
Clock == [day : {1, 31}, month : {1, 12}, year : {2026},
          hour : {0, 23}, minute : {5}, second : {0, 59}]

\* before datetime.now() has been called
NoTime == [day |-> 0, month |-> 0, year |-> 0,
           hour |-> 0, minute |-> 0, second |-> 0]

\* arguments of create_clone: a clone name supplied or not, a snapshot and
\* a parent volume
CreateArgs == [clone_name : {NoName, <<"clone_x">>},
               snapshot : {"snapA", "snapB"},
               volume_name : {"volA", "volB"}]

CreateInit ==
    /\ IF script = "create_clone"
       THEN args \in CreateArgs
       ELSE args = [clone_name |-> NoName, snapshot |-> "none",
                    volume_name |-> "none"]
    /\ now = NoTime
    /\ clone_name = NoName
    /\ posted = NoRequest

\* the host before the first call of mount_volume: the mount point is
\* missing, a plain directory, or a mounted file system
HostInit ==
    /\ IF script = "mount_volume"
       THEN /\ mp_exists \in BOOLEAN
            /\ mp_mounted \in BOOLEAN
            /\ mp_mounted => mp_exists
       ELSE mp_exists = FALSE /\ mp_mounted = FALSE
    /\ mountRets = <<>>

\* paths of the source volumes and of the destination volumes
SourcePaths == {"svm:vol_a", "svm:vol_b"}
DestinationPaths == {<<"dst", i>> : i \in 1..MaxRels}

\* no path or uuid resolved yet
Unresolved == <<"unresolved">>

\* the sets of relationships a controller can hold: a volume is the
\* destination of at most one relationship (a source may have several
\* destinations), and every relationship has a uuid of its own
RelationshipSets ==
    UNION {{ {[uuid |-> d[2], source |-> f[d], destination |-> d] : d \in D}
             : f \in [D -> SourcePaths] }
           : D \in SUBSET DestinationPaths}

LookupInit ==
    /\ IF script = "resolve_relationship"
       THEN rels \in RelationshipSets /\ source_path \in SourcePaths
       ELSE rels = {} /\ source_path = "none"
    /\ destination_path = Unresolved
    /\ update_uuid = 0
    /\ break_uuid = 0

DeleteInit ==
    /\ volume = "unbound"
    /\ is_flexclone = "unread"
    /\ deletes = 0
    /\ reported = FALSE

LunInit == tried = {} /\ broken = {} /\ hosted = {}

Init ==
    /\ script \in Scripts
    /\ pc = StartPc(script)
    /\ attempt = 0
    /\ rel_state = "unread"
    /\ transfer_state = "unread"
    /\ current_state = "unread"
    /\ job_id = FALSE
    /\ job_state = "unread"
    /\ result = [s \in Steps |-> "none"]
    /\ quiesce_ret = "none"
    /\ error = "none"
    /\ started = <<>>
    /\ failed = FALSE
    /\ transferPosts = 0
    /\ quiescePatches = 0
    /\ breakPatches = 0
    /\ snapmirroredRead = FALSE
    /\ break_initial = "unread"
    /\ quiescedSeen = FALSE
    /\ brokenSeen = FALSE
    /\ jobReads = 0
    /\ firstTerminal = 0
    /\ jobLoopDone = FALSE
    /\ statePolls = 0
    /\ mountCmds = 0
    /\ CloneInit
    /\ CreateInit
    /\ HostInit
    /\ LunInit
    /\ LookupInit
    /\ DeleteInit

(* ------------------------------------------------------------------ *)
(* main() of na_dbbackup_v2: sequencing of the steps                   *)
(* ------------------------------------------------------------------ *)

\* mutation of AfterStep: the result of the step is not tested
AfterStep_ignore(step, ok) ==
    IF StepIndex(step) = Len(StepOrder)
    THEN "completed"
    ELSE EntryPc(StepOrder[StepIndex(step) + 1])

\* `if not step(...): return` for each step, then the next step
AfterStep(step, ok) ==
    IF ~ok THEN "returned"
    ELSE IF StepIndex(step) = Len(StepOrder)
         THEN "completed"
         ELSE EntryPc(StepOrder[StepIndex(step) + 1])

\* mutation of Return: the exception of a failed step is not caught
Return_raise(step, ok, why) ==
    /\ result' = [result EXCEPT ![step] = IF ok THEN "True" ELSE "raised"]
    /\ error' = IF ok THEN error ELSE why
    /\ failed' = (failed \/ ~ok)
    /\ pc' = IF ok THEN AfterStep(step, ok) ELSE "crashed"

\* a step returns to main() with value ok; why is the reason of a failure
Return(step, ok, why) ==
    /\ result' = [result EXCEPT ![step] = IF ok THEN "True" ELSE "False"]
    /\ error' = IF ok THEN error ELSE why
    /\ failed' = (failed \/ ~ok)
    /\ pc' = AfterStep(step, ok)

\* a step is entered from main()
Enter(step) == started' = Append(started, step)

(* ------------------------------------------------------------------ *)
(* validate_source_volume, get_destination_path                        *)
(* ------------------------------------------------------------------ *)

\* outcomes of a collection GET: a failure, no record, or a first record
LookupOutcomes == ReqFailures \cup {"empty", "found"}

LookupError(o) == IF o = "empty" THEN "not_found" ELSE o

validate_source_volume ==
    /\ script = "na_dbbackup_v2" /\ pc = "validate"
    /\ Enter("validate_source_volume")
    /\ \E o \in LookupOutcomes :
          Return("validate_source_volume", o = "found", LookupError(o))
    /\ UNCHANGED <<script, attempt, locals, quiesce_ret>>
    /\ UNCHANGED <<requests, observed, jobHist, statePolls, mountCmds>>
    /\ UNCHANGED cloneVars
    /\ UNCHANGED toolVars

get_destination_path ==
    /\ script = "na_dbbackup_v2" /\ pc = "get_destination_path"
    /\ Enter("get_destination_path")
    /\ \E o \in LookupOutcomes :
          Return("get_destination_path", o = "found", LookupError(o))
    /\ UNCHANGED <<script, attempt, locals, quiesce_ret>>
    /\ UNCHANGED <<requests, observed, jobHist, statePolls, mountCmds>>
    /\ UNCHANGED cloneVars
    /\ UNCHANGED toolVars

(* ------------------------------------------------------------------ *)
(* Polling loops: the loop condition                                   *)
(* ------------------------------------------------------------------ *)

\* mutation of LoopContinues: off by one
LoopContinues_offbyone(a) == a <= max_attempts

\* `while attempt < max_attempts`
LoopContinues(a) == a < max_attempts

(* ------------------------------------------------------------------ *)
(* update_snapmirror (na_dbbackup_v2)                                  *)
(* ------------------------------------------------------------------ *)

\* mutation of UpdateStable: the relationship state is not tested
UpdateStable_anyrel(rel, tr) == tr \in {"none", "success", "failed"}

\* the exit test of the stabilisation loop
UpdateStable(rel, tr) ==
    rel = "snapmirrored" /\ tr \in {"none", "success", "failed"}

\* GET relationships?source.path=..&destination.path=..&fields=uuid
update_lookup ==
    /\ script = "na_dbbackup_v2" /\ pc = "update_lookup"
    /\ Enter("update_snapmirror")
    /\ \E o \in LookupOutcomes :
          IF o = "found"
          THEN /\ pc' = "update_post"
               /\ UNCHANGED <<result, error, failed>>
          ELSE Return("update_snapmirror", FALSE, LookupError(o))
    /\ UNCHANGED <<script, attempt, locals, quiesce_ret>>
    /\ UNCHANGED <<requests, observed, jobHist, statePolls, mountCmds>>
    /\ UNCHANGED cloneVars
    /\ UNCHANGED toolVars

\* POST relationships/{uuid}/transfers
update_post ==
    /\ script = "na_dbbackup_v2" /\ pc = "update_post"
    /\ transferPosts' = transferPosts + 1
    /\ \E o \in ReqFailures \cup {"ok"} :
          IF o = "ok"
          THEN /\ pc' = "update_poll"
               /\ attempt' = 0
               /\ statePolls' = 0
               /\ UNCHANGED <<result, error, failed>>
          ELSE /\ Return("update_snapmirror", FALSE, o)
               /\ UNCHANGED <<attempt, statePolls>>
    /\ UNCHANGED <<script, locals, quiesce_ret, started>>
    /\ UNCHANGED <<quiescePatches, breakPatches, observed, jobHist, mountCmds>>
    /\ UNCHANGED cloneVars
    /\ UNCHANGED toolVars

\* one iteration of the stabilisation loop, the loop test that follows it
\* and, when the loop is left, the code after the loop
update_poll ==
    /\ script = "na_dbbackup_v2" /\ pc = "update_poll"
    /\ LoopContinues(attempt)
    /\ statePolls' = statePolls + 1
    /\ \E o \in ReqFailures \cup {"ok"}, rel \in RelStates, tr \in TransferStates :
          IF o /= "ok"
          THEN /\ Return("update_snapmirror", FALSE, o)
               /\ UNCHANGED <<attempt, rel_state, transfer_state>>
          ELSE /\ rel_state' = rel
               /\ transfer_state' = tr
               /\ IF UpdateStable(rel, tr)
                  THEN \* break; attempt < max_attempts; return True
                       /\ Return("update_snapmirror", TRUE, "none")
                       /\ UNCHANGED attempt
                  ELSE /\ attempt' = attempt + 1
                       /\ IF LoopContinues(attempt + 1)
                          THEN UNCHANGED <<pc, result, error, failed>>
                          ELSE Return("update_snapmirror", FALSE, "timeout")
    /\ UNCHANGED <<script, current_state, job_id, job_state, quiesce_ret, started>>
    /\ UNCHANGED <<requests, observed, jobHist, mountCmds>>
    /\ UNCHANGED cloneVars
    /\ UNCHANGED toolVars

(* ------------------------------------------------------------------ *)
(* Decisions shared by quiesce_snapmirror and break_snapmirror         *)
(* ------------------------------------------------------------------ *)

\* mutation of JobTerminal: 'failure' does not end the job loop
JobTerminal_successonly(js) == js = "success"

\* `if job_state in ['success', 'failure']: break`
JobTerminal(js) == js \in {"success", "failure"}

\* mutation of JobFailed: a failed job is not tested for
JobFailed_never(js) == FALSE

\* `if job_state == 'failure': raise`
JobFailed(js) == js = "failure"

\* mutation of HasJob: the job loop is entered without a job id
HasJob_always(job) == TRUE

\* `if job_id:` on the job uuid of the PATCH response
HasJob(job) == job

\* mutation of QuiesceConfirmed: the state before the quiesce also counts
QuiesceConfirmed_stale(s) == s \in {"quiesced", "snapmirrored"}

\* `if current_state == 'quiesced': return True`
QuiesceConfirmed(s) == s = "quiesced"

\* mutation of BreakConfirmed: any state that is not 'snapmirrored' counts
BreakConfirmed_notmirrored(s) == s /= "snapmirrored"

\* `if current_state == 'broken_off': return True`
BreakConfirmed(s) == s = "broken_off"

\* mutation of NeedsQuiesce: a quiesced relationship is quiesced again
NeedsQuiesce_always(s) == TRUE

\* `if current_state != 'quiesced'`
NeedsQuiesce(s) == s /= "quiesced"

\* mutation of BreakAllowed: a relationship in transfer is accepted too
BreakAllowed_transferring(s) == s \in {"snapmirrored", "transferring"}

\* `if current_state != 'snapmirrored': raise`, negated
BreakAllowed(s) == s = "snapmirrored"

\* mutation of BreakProceeds: the result of the quiesce is not tested
BreakProceeds_always(qret) == TRUE

\* `if not quiesce_snapmirror(client, uuid): return False`, negated
BreakProceeds(qret) == qret

(* ------------------------------------------------------------------ *)
(* quiesce_snapmirror (na_dbbackup_v2), called from break_snapmirror   *)
(* ------------------------------------------------------------------ *)

\* quiesce_snapmirror returns ok to break_snapmirror, which tests it
QuiesceReturn(ok, why) ==
    /\ quiesce_ret' = IF ok THEN "True" ELSE "False"
    /\ IF BreakProceeds(ok)
       THEN /\ pc' = "break_patch"
            /\ failed' = (failed \/ ~ok)
            /\ error' = IF ok THEN error ELSE why
            /\ UNCHANGED result
       ELSE Return("break_snapmirror", FALSE, why)

\* requests.patch(.., json={"state": "quiesced"}) and the job id of the response
quiesce_patch ==
    /\ script = "na_dbbackup_v2" /\ pc = "quiesce_patch"
    /\ quiescePatches' = quiescePatches + 1
    /\ \E o \in ReqFailures \cup {"ok"}, job \in BOOLEAN :
          IF o /= "ok"
          THEN /\ QuiesceReturn(FALSE, o)
               /\ UNCHANGED <<attempt, job_id, jobHist, statePolls>>
          ELSE /\ job_id' = job
               /\ attempt' = 0
               /\ jobReads' = 0
               /\ firstTerminal' = 0
               /\ jobLoopDone' = FALSE
               /\ statePolls' = 0
               /\ pc' = IF HasJob(job) THEN "quiesce_job" ELSE "quiesce_verify"
               /\ UNCHANGED <<result, error, failed, quiesce_ret>>
    /\ UNCHANGED <<script, rel_state, transfer_state, current_state, job_state>>
    /\ UNCHANGED <<started, transferPosts, breakPatches, observed, mountCmds>>
    /\ UNCHANGED cloneVars
    /\ UNCHANGED toolVars

\* one iteration of the job loop, the loop test that follows it and, when
\* the loop is left, the test of the job state after the loop
quiesce_job ==
    /\ script = "na_dbbackup_v2" /\ pc = "quiesce_job"
    /\ LoopContinues(attempt)
    /\ jobReads' = jobReads + 1
    /\ \E o \in ReqFailures \cup {"ok"}, js \in JobStates :
          IF o /= "ok"
          THEN /\ QuiesceReturn(FALSE, o)
               /\ UNCHANGED <<attempt, job_state, firstTerminal, jobLoopDone>>
          ELSE /\ job_state' = js
               /\ firstTerminal' = IF js \in {"success", "failure"}
                                   THEN jobReads + 1 ELSE firstTerminal
               /\ IF ~JobTerminal(js) /\ LoopContinues(attempt + 1)
                  THEN /\ attempt' = attempt + 1
                       /\ UNCHANGED <<pc, result, error, failed, quiesce_ret,
                                      jobLoopDone>>
                  ELSE /\ jobLoopDone' = TRUE
                       /\ IF JobFailed(js)
                          THEN /\ QuiesceReturn(FALSE, "job_failure")
                               /\ UNCHANGED attempt
                          ELSE /\ attempt' = 0
                               /\ pc' = "quiesce_verify"
                               /\ UNCHANGED <<result, error, failed, quiesce_ret>>
    /\ UNCHANGED <<script, rel_state, transfer_state, current_state, job_id>>
    /\ UNCHANGED <<started, requests, observed, statePolls, mountCmds>>
    /\ UNCHANGED cloneVars
    /\ UNCHANGED toolVars

\* one iteration of the verification loop and the loop test that follows it
quiesce_verify ==
    /\ script = "na_dbbackup_v2" /\ pc = "quiesce_verify"
    /\ LoopContinues(attempt)
    /\ statePolls' = statePolls + 1
    /\ \E o \in ReqFailures \cup {"ok"}, s \in RelStates :
          IF o /= "ok"
          THEN /\ QuiesceReturn(FALSE, o)
               /\ UNCHANGED <<attempt, current_state, quiescedSeen>>
          ELSE /\ current_state' = s
               /\ quiescedSeen' = (quiescedSeen \/ s = "quiesced")
               /\ IF QuiesceConfirmed(s)
                  THEN /\ QuiesceReturn(TRUE, "none")
                       /\ UNCHANGED attempt
                  ELSE /\ attempt' = attempt + 1
                       /\ IF LoopContinues(attempt + 1)
                          THEN UNCHANGED <<pc, result, error, failed, quiesce_ret>>
                          ELSE QuiesceReturn(FALSE, "timeout")
    /\ UNCHANGED <<script, rel_state, transfer_state, job_id, job_state>>
    /\ UNCHANGED <<started, requests, snapmirroredRead, break_initial,
                   brokenSeen, jobHist, mountCmds>>
    /\ UNCHANGED cloneVars
    /\ UNCHANGED toolVars

(* ------------------------------------------------------------------ *)
(* break_snapmirror (na_dbbackup_v2)                                   *)
(* ------------------------------------------------------------------ *)

\* GET relationships?destination.path=..&fields=uuid,state and the
\* precondition tests on the state it returns
break_lookup ==
    /\ script = "na_dbbackup_v2" /\ pc = "break_lookup"
    /\ Enter("break_snapmirror")
    /\ \E o \in LookupOutcomes, s \in RelStates :
          IF o /= "found"
          THEN /\ Return("break_snapmirror", FALSE, LookupError(o))
               /\ UNCHANGED <<current_state, break_initial>>
          ELSE /\ current_state' = s
               /\ break_initial' = s
               /\ IF NeedsQuiesce(s)
                  THEN IF BreakAllowed(s)
                       THEN /\ pc' = "quiesce_patch"
                            /\ UNCHANGED <<result, error, failed>>
                       ELSE Return("break_snapmirror", FALSE, "precondition")
                  ELSE /\ pc' = "break_patch"
                       /\ UNCHANGED <<result, error, failed>>
    /\ UNCHANGED <<script, attempt, rel_state, transfer_state, job_id,
                   job_state, quiesce_ret>>
    /\ UNCHANGED <<requests, snapmirroredRead, quiescedSeen, brokenSeen,
                   jobHist, statePolls, mountCmds>>
    /\ UNCHANGED cloneVars
    /\ UNCHANGED toolVars

\* requests.patch(.., json={"state": "broken_off"}) and the job id of the response
break_patch ==
    /\ script = "na_dbbackup_v2" /\ pc = "break_patch"
    /\ breakPatches' = breakPatches + 1
    /\ \E o \in ReqFailures \cup {"ok"}, job \in BOOLEAN :
          IF o /= "ok"
          THEN /\ Return("break_snapmirror", FALSE, o)
               /\ UNCHANGED <<attempt, job_id, jobHist, statePolls>>
          ELSE /\ job_id' = job
               /\ attempt' = 0
               /\ jobReads' = 0
               /\ firstTerminal' = 0
               /\ jobLoopDone' = FALSE
               /\ statePolls' = 0
               /\ pc' = IF HasJob(job) THEN "break_job" ELSE "break_verify"
               /\ UNCHANGED <<result, error, failed>>
    /\ UNCHANGED <<script, rel_state, transfer_state, current_state,
                   job_state, quiesce_ret>>
    /\ UNCHANGED <<started, transferPosts, quiescePatches, observed, mountCmds>>
    /\ UNCHANGED cloneVars
    /\ UNCHANGED toolVars

\* one iteration of the job loop, the loop test that follows it and, when
\* the loop is left, the tests of the job state after the loop
break_job ==
    /\ script = "na_dbbackup_v2" /\ pc = "break_job"
    /\ LoopContinues(attempt)
    /\ jobReads' = jobReads + 1
    /\ \E o \in ReqFailures \cup {"ok"}, js \in JobStates :
          IF o /= "ok"
          THEN /\ Return("break_snapmirror", FALSE, o)
               /\ UNCHANGED <<attempt, job_state, firstTerminal, jobLoopDone>>
          ELSE /\ job_state' = js
               /\ firstTerminal' = IF js \in {"success", "failure"}
                                   THEN jobReads + 1 ELSE firstTerminal
               /\ IF ~JobTerminal(js) /\ LoopContinues(attempt + 1)
                  THEN /\ attempt' = attempt + 1
                       /\ UNCHANGED <<pc, result, error, failed, jobLoopDone>>
                  ELSE /\ jobLoopDone' = TRUE
                       /\ IF JobFailed(js)
                          THEN /\ Return("break_snapmirror", FALSE, "job_failure")
                               /\ UNCHANGED attempt
                          ELSE /\ attempt' = 0
                               /\ pc' = "break_verify"
                               /\ UNCHANGED <<result, error, failed>>
    /\ UNCHANGED <<script, rel_state, transfer_state, current_state, job_id,
                   quiesce_ret>>
    /\ UNCHANGED <<started, requests, observed, statePolls, mountCmds>>
    /\ UNCHANGED cloneVars
    /\ UNCHANGED toolVars

\* one iteration of the verification loop and the loop test that follows it
break_verify ==
    /\ script = "na_dbbackup_v2" /\ pc = "break_verify"
    /\ LoopContinues(attempt)
    /\ statePolls' = statePolls + 1
    /\ \E o \in ReqFailures \cup {"ok"}, s \in RelStates :
          IF o /= "ok"
          THEN /\ Return("break_snapmirror", FALSE, o)
               /\ UNCHANGED <<attempt, current_state, brokenSeen>>
          ELSE /\ current_state' = s
               /\ brokenSeen' = (brokenSeen \/ s = "broken_off")
               /\ IF BreakConfirmed(s)
                  THEN /\ Return("break_snapmirror", TRUE, "none")
                       /\ UNCHANGED attempt
                  ELSE /\ attempt' = attempt + 1
                       /\ IF LoopContinues(attempt + 1)
                          THEN UNCHANGED <<pc, result, error, failed>>
                          ELSE Return("break_snapmirror", FALSE, "timeout")
    /\ UNCHANGED <<script, rel_state, transfer_state, job_id, job_state,
                   quiesce_ret>>
    /\ UNCHANGED <<started, requests, snapmirroredRead, break_initial,
                   quiescedSeen, jobHist, mountCmds>>
    /\ UNCHANGED cloneVars
    /\ UNCHANGED toolVars

(* ------------------------------------------------------------------ *)
(* Host-side steps of na_dbbackup_v2                                   *)
(* ------------------------------------------------------------------ *)

\* outcomes of subprocess.run(.., check=True): exit status 0, a non-zero
\* exit status (CalledProcessError, caught), or the command cannot be
\* started (OSError, not caught by the step)
CmdOutcomes == {"ok", "CalledProcessError", "OSError"}

\* an exception the step does not catch leaves main() through the traceback
Crash(step, why) ==
    /\ result' = [result EXCEPT ![step] = "raised"]
    /\ error' = why
    /\ failed' = TRUE
    /\ pc' = "crashed"

\* a step that is one command
CmdReturn(step, o) ==
    IF o = "OSError" THEN Crash(step, o) ELSE Return(step, o = "ok", o)

scan_iscsi ==
    /\ script = "na_dbbackup_v2" /\ pc = "scan_iscsi"
    /\ Enter("scan_iscsi")
    /\ \E o \in CmdOutcomes : CmdReturn("scan_iscsi", o)
    /\ UNCHANGED <<script, attempt, locals, quiesce_ret>>
    /\ UNCHANGED <<requests, observed, jobHist, statePolls, mountCmds>>
    /\ UNCHANGED cloneVars
    /\ UNCHANGED toolVars

refresh_multipath ==
    /\ script = "na_dbbackup_v2" /\ pc = "refresh_multipath"
    /\ Enter("refresh_multipath")
    /\ \E o \in CmdOutcomes : CmdReturn("refresh_multipath", o)
    /\ UNCHANGED <<script, attempt, locals, quiesce_ret>>
    /\ UNCHANGED <<requests, observed, jobHist, statePolls, mountCmds>>
    /\ UNCHANGED cloneVars
    /\ UNCHANGED toolVars

\* mutation of MountSkips: the mount point is never taken as mounted
MountSkips_never(exists, ismount) == FALSE

\* `if os.path.exists(mount_point): if os.path.ismount(mount_point):
\* return True`
MountSkips(exists, ismount) == exists /\ ismount

\* exists / ismount are what os.path reports for the mount point; mk is the
\* outcome of mkdir (run only when the mount point does not exist), mnt the
\* outcome of mount
mount_volume ==
    /\ script = "na_dbbackup_v2" /\ pc = "mount_volume"
    /\ Enter("mount_volume")
    /\ \E exists \in BOOLEAN, ismount \in BOOLEAN,
          mk \in CmdOutcomes, mnt \in CmdOutcomes :
          IF MountSkips(exists, ismount)
          THEN /\ Return("mount_volume", TRUE, "none")
               /\ UNCHANGED mountCmds
          ELSE IF ~exists /\ mk /= "ok"
               THEN /\ CmdReturn("mount_volume", mk)
                    /\ UNCHANGED mountCmds
               ELSE /\ mountCmds' = mountCmds + 1
                    /\ CmdReturn("mount_volume", mnt)
    /\ UNCHANGED <<script, attempt, locals, quiesce_ret>>
    /\ UNCHANGED <<requests, observed, jobHist, statePolls>>
    /\ UNCHANGED cloneVars
    /\ UNCHANGED toolVars

(* ------------------------------------------------------------------ *)
(* update_snapmirror (na_dbbackup_v1)                                  *)
(* ------------------------------------------------------------------ *)

\* `if status['state'] != 'transferring': break`, negated
V1StillTransferring(s) == s = "transferring"

\* update_snapmirror of na_dbbackup_v1 returns
V1Return(ok, why) ==
    /\ result' = [result EXCEPT !["update_snapmirror"] =
                                   IF ok THEN "True" ELSE "False"]
    /\ error' = IF ok THEN error ELSE why
    /\ failed' = (failed \/ ~ok)
    /\ pc' = "v1_update_returned"

v1_update_lookup ==
    /\ script = "na_dbbackup_v1" /\ pc = "v1_update_lookup"
    /\ Enter("update_snapmirror")
    /\ \E o \in LookupOutcomes :
          IF o = "found"
          THEN /\ pc' = "v1_update_post"
               /\ UNCHANGED <<result, error, failed>>
          ELSE V1Return(FALSE, LookupError(o))
    /\ UNCHANGED <<script, attempt, locals, quiesce_ret>>
    /\ UNCHANGED <<requests, observed, jobHist, statePolls, mountCmds>>
    /\ UNCHANGED cloneVars
    /\ UNCHANGED toolVars

v1_update_post ==
    /\ script = "na_dbbackup_v1" /\ pc = "v1_update_post"
    /\ transferPosts' = transferPosts + 1
    /\ \E o \in ReqFailures \cup {"ok"} :
          IF o = "ok"
          THEN /\ pc' = "v1_update_poll"
               /\ UNCHANGED <<result, error, failed>>
          ELSE V1Return(FALSE, o)
    /\ UNCHANGED <<script, attempt, locals, quiesce_ret, started>>
    /\ UNCHANGED <<quiescePatches, breakPatches, observed, jobHist,
                   statePolls, mountCmds>>
    /\ UNCHANGED cloneVars
    /\ UNCHANGED toolVars

\* one iteration of `while True`; the loop has no counter, the model
\* follows it for MaxPollsV1 polls
v1_update_poll ==
    /\ script = "na_dbbackup_v1" /\ pc = "v1_update_poll"
    /\ statePolls < MaxPollsV1
    /\ statePolls' = statePolls + 1
    /\ \E o \in ReqFailures \cup {"ok"}, s \in RelStates :
          IF o /= "ok"
          THEN /\ V1Return(FALSE, o)
               /\ UNCHANGED rel_state
          ELSE /\ rel_state' = s
               /\ IF V1StillTransferring(s)
                  THEN UNCHANGED <<pc, result, error, failed>>
                  ELSE V1Return(TRUE, "none")
    /\ UNCHANGED <<script, attempt, transfer_state, current_state, job_id,
                   job_state, quiesce_ret, started>>
    /\ UNCHANGED <<requests, observed, jobHist, mountCmds>>
    /\ UNCHANGED cloneVars
    /\ UNCHANGED toolVars

(* ------------------------------------------------------------------ *)
(* update_snapmirror (na_oracle_dbbackup_v7)                           *)
(* ------------------------------------------------------------------ *)

\* `if snapmirrorDetail.state == 'snapmirrored'`
V7Eligible(s) == s = "snapmirrored"

\* outcomes of scanning a collection for the source path: NetAppRestError
\* (caught, printed), no element matches, or the first match
ScanOutcomes == {"NetAppRestError", "nomatch", "match"}

\* SnapmirrorRelationship.get_collection(list_destinations_only=True) and
\* the search for the source path; setup_connection on a match
v7_list_sources ==
    /\ script = "na_oracle_dbbackup_v7" /\ pc = "v7_list_sources"
    /\ \E o \in ScanOutcomes :
          /\ pc' = IF o = "match" THEN "v7_list_destinations" ELSE "v7_returned"
          /\ error' = IF o = "NetAppRestError" THEN o ELSE error
    /\ UNCHANGED <<script, attempt, locals, result, quiesce_ret>>
    /\ UNCHANGED hist
    /\ UNCHANGED toolVars
    /\ UNCHANGED cloneVars

\* SnapmirrorRelationship.get_collection(fields="source") on the destination
v7_list_destinations ==
    /\ script = "na_oracle_dbbackup_v7" /\ pc = "v7_list_destinations"
    /\ \E o \in ScanOutcomes :
          /\ pc' = IF o = "match" THEN "v7_get" ELSE "v7_returned"
          /\ error' = IF o = "NetAppRestError" THEN o ELSE error
    /\ UNCHANGED <<script, attempt, locals, result, quiesce_ret>>
    /\ UNCHANGED hist
    /\ UNCHANGED toolVars
    /\ UNCHANGED cloneVars

\* snapmirrorDetail.get() and the test of the state it read
v7_get ==
    /\ script = "na_oracle_dbbackup_v7" /\ pc = "v7_get"
    /\ \E o \in {"NetAppRestError", "ok"}, s \in RelStates :
          IF o /= "ok"
          THEN /\ pc' = "v7_returned"
               /\ error' = o
               /\ UNCHANGED <<rel_state, snapmirroredRead>>
          ELSE /\ rel_state' = s
               /\ snapmirroredRead' = (s = "snapmirrored")
               /\ pc' = IF V7Eligible(s) THEN "v7_post" ELSE "v7_returned"
               /\ error' = IF V7Eligible(s) THEN error ELSE "not_eligible"
    /\ UNCHANGED <<script, attempt, transfer_state, current_state, job_id,
                   job_state, result, quiesce_ret>>
    /\ UNCHANGED <<started, failed, requests, break_initial, quiescedSeen,
                   brokenSeen, jobHist, statePolls, mountCmds>>
    /\ UNCHANGED cloneVars
    /\ UNCHANGED toolVars

\* snapmirrorUpdate.post()
v7_post ==
    /\ script = "na_oracle_dbbackup_v7" /\ pc = "v7_post"
    /\ transferPosts' = transferPosts + 1
    /\ \E o \in {"NetAppRestError", "ok"} :
          /\ pc' = IF o = "ok" THEN "v7_transfer_get" ELSE "v7_returned"
          /\ error' = IF o = "ok" THEN error ELSE o
    /\ UNCHANGED <<script, attempt, locals, result, quiesce_ret>>
    /\ UNCHANGED <<started, failed, quiescePatches, breakPatches, observed,
                   jobHist, statePolls, mountCmds>>
    /\ UNCHANGED cloneVars
    /\ UNCHANGED toolVars

\* snapmirrorUpdate.get() and the report of the transfer state
v7_transfer_get ==
    /\ script = "na_oracle_dbbackup_v7" /\ pc = "v7_transfer_get"
    /\ \E o \in {"NetAppRestError", "ok"}, tr \in TransferStates :
          /\ transfer_state' = IF o = "ok" THEN tr ELSE transfer_state
          /\ error' = IF o = "ok" THEN error ELSE o
    /\ pc' = "v7_returned"
    /\ UNCHANGED <<script, attempt, rel_state, current_state, job_id,
                   job_state, result, quiesce_ret>>
    /\ UNCHANGED hist
    /\ UNCHANGED toolVars
    /\ UNCHANGED cloneVars

(* ------------------------------------------------------------------ *)
(* clone_lun (na_oracle_dbbackup_v3)                                   *)
(*                                                                     *)
(* The controller applies every request it answers without error, and  *)
(* answers a create request for a name or mapping that exists with an  *)
(* error.  Every request may also fail for another reason.             *)
(* ------------------------------------------------------------------ *)

V3 == script = "na_oracle_dbbackup_v3"

SdkOutcomes == {"ok", "NetAppRestError"}

\* the clone LUN the inner loop is processing
CurLun == clone_list[cl]

\* `except NetAppRestError as error: print(...)` around the whole workflow
V3Fail(why) ==
    /\ pc' = "v3_returned"
    /\ error' = why

\* `for vol in volume_name`: the next volume, or the end of the workflow
V3AdvanceVolume ==
    IF vol < nVols
    THEN vol' = vol + 1 /\ pc' = "v3_clone_post"
    ELSE vol' = vol /\ pc' = "v3_returned"

\* `for parent_lun in Lun.get_collection(...)`: the next parent LUN
V3AdvanceParent ==
    IF pl < nParent
    THEN pl' = pl + 1 /\ pc' = "v3_parent_get" /\ UNCHANGED vol
    ELSE pl' = pl /\ V3AdvanceVolume

\* `for clone_lun in Lun.get_collection(...)`: the next clone LUN
V3AdvanceClone ==
    IF cl < Len(clone_list)
    THEN cl' = cl + 1 /\ pc' = "v3_clone_get" /\ UNCHANGED <<pl, vol>>
    ELSE cl' = cl /\ V3AdvanceParent

\* `for igroup in igroup_name`: the next initiator group
V3AdvanceIgroup ==
    IF ig < nIgroups
    THEN ig' = ig + 1 /\ pc' = "v3_map_post" /\ UNCHANGED <<cl, pl, vol>>
    ELSE ig' = ig /\ V3AdvanceClone

\* "status.state": "online" in the clone LUN query
OnlineLuns ==
    SelectSeq([c \in 1..nClone |-> c], LAMBDA c : lun_online[c])

\* mutation of V3SerialToWrite: the clone's own serial is written back
V3SerialToWrite_clone(parent_sn, c) == lun_serial[c]

\* `clone_lun.serial_number = parent_serial_number`
V3SerialToWrite(parent_sn, c) == parent_sn

\* mutation of V3EnabledAfterRewrite: the LUN is left disabled
V3EnabledAfterRewrite_false == FALSE

\* `clone_lun.enabled = 'true'`
V3EnabledAfterRewrite == TRUE

\* resourcevol.post(hydrate=True) with name clone_name_auto
v3_clone_post ==
    /\ V3 /\ pc = "v3_clone_post"
    /\ \E o \in SdkOutcomes :
          IF o = "ok" /\ ~clone_exists
          THEN /\ clone_exists' = TRUE
               /\ pc' = "v3_parent_list"
               /\ UNCHANGED error
          ELSE /\ V3Fail("NetAppRestError")
               /\ UNCHANGED clone_exists
    /\ UNCHANGED <<script, attempt, locals, result, quiesce_ret>>
    /\ UNCHANGED hist
    /\ UNCHANGED toolVars
    /\ UNCHANGED <<cloneArgs, cloneProg, lun_online, lun_serial, lun_maps,
                   cloneHist>>

\* Lun.get_collection(.. "name": "/vol/" + vol + "**") is fetched when the
\* loop over the parent LUNs starts
v3_parent_list ==
    /\ V3 /\ pc = "v3_parent_list"
    /\ \E o \in SdkOutcomes :
          IF o = "ok"
          THEN /\ IF nParent >= 1
                  THEN pl' = 1 /\ pc' = "v3_parent_get" /\ UNCHANGED vol
                  ELSE pl' = pl /\ V3AdvanceVolume
               /\ UNCHANGED error
          ELSE /\ V3Fail("NetAppRestError")
               /\ UNCHANGED <<pl, vol>>
    /\ UNCHANGED <<script, attempt, locals, result, quiesce_ret>>
    /\ UNCHANGED hist
    /\ UNCHANGED toolVars
    /\ UNCHANGED <<cloneArgs, cl, ig, clone_list, parent_serial_number,
                   clone_lun_state, controller, cloneHist>>

\* parent_lun.get() and the serial number it read
v3_parent_get ==
    /\ V3 /\ pc = "v3_parent_get"
    /\ \E o \in SdkOutcomes :
          IF o = "ok"
          THEN /\ parent_serial_number' = PSerial(vol, pl)
               /\ pc' = "v3_clone_list"
               /\ UNCHANGED error
          ELSE /\ V3Fail("NetAppRestError")
               /\ UNCHANGED parent_serial_number
    /\ UNCHANGED <<script, attempt, locals, result, quiesce_ret>>
    /\ UNCHANGED hist
    /\ UNCHANGED toolVars
    /\ UNCHANGED <<cloneArgs, vol, pl, cl, ig, clone_list, clone_lun_state,
                   controller, cloneHist>>

\* Lun.get_collection(.. "status.state": "online", "name": "/vol/" +
\* resourcevol.name + "**") is fetched when the loop over the clone LUNs
\* starts, once for every parent LUN
v3_clone_list ==
    /\ V3 /\ pc = "v3_clone_list"
    /\ \E o \in SdkOutcomes :
          IF o = "ok"
          THEN /\ clone_list' = OnlineLuns
               /\ IF Len(OnlineLuns) >= 1
                  THEN cl' = 1 /\ pc' = "v3_clone_get" /\ UNCHANGED <<pl, vol>>
                  ELSE cl' = cl /\ V3AdvanceParent
               /\ UNCHANGED error
          ELSE /\ V3Fail("NetAppRestError")
               /\ UNCHANGED <<clone_list, cl, pl, vol>>
    /\ UNCHANGED <<script, attempt, locals, result, quiesce_ret>>
    /\ UNCHANGED hist
    /\ UNCHANGED toolVars
    /\ UNCHANGED <<cloneArgs, ig, parent_serial_number, clone_lun_state,
                   controller, cloneHist>>

\* a clone_lun.get() whose result is only printed
V3Refresh(here, next, nextIg) ==
    /\ V3 /\ pc = here
    /\ \E o \in SdkOutcomes :
          IF o = "ok"
          THEN /\ clone_lun_state' =
                      IF lun_online[CurLun] THEN "online" ELSE "offline"
               /\ offlineRead' =
                      IF here = "v3_offline_get"
                      THEN ~lun_online[CurLun] ELSE offlineRead
               /\ pc' = next
               /\ ig' = nextIg
               /\ UNCHANGED error
          ELSE /\ V3Fail("NetAppRestError")
               /\ UNCHANGED <<clone_lun_state, offlineRead, ig>>
    /\ UNCHANGED <<script, attempt, locals, result, quiesce_ret>>
    /\ UNCHANGED hist
    /\ UNCHANGED toolVars
    /\ UNCHANGED <<cloneArgs, vol, pl, cl, clone_list,
                   parent_serial_number, controller, serialPatches,
                   mapPosts, dupMapPosts, rewritten>>

\* clone_lun.get() before the LUN is touched
v3_clone_get ==
    /\ pc = "v3_clone_get"
    /\ V3Refresh("v3_clone_get", "v3_offline_patch", ig)

\* clone_lun.enabled = 'false'; clone_lun.patch()
v3_offline_patch ==
    /\ V3 /\ pc = "v3_offline_patch"
    /\ offlineRead' = FALSE
    /\ \E o \in SdkOutcomes :
          IF o = "ok"
          THEN /\ lun_online' = [lun_online EXCEPT ![CurLun] = FALSE]
               /\ pc' = "v3_offline_get"
               /\ UNCHANGED error
          ELSE /\ V3Fail("NetAppRestError")
               /\ UNCHANGED lun_online
    /\ UNCHANGED <<script, attempt, locals, result, quiesce_ret>>
    /\ UNCHANGED hist
    /\ UNCHANGED toolVars
    /\ UNCHANGED <<cloneArgs, cloneProg, clone_exists, lun_serial, lun_maps,
                   serialPatches, mapPosts, dupMapPosts, rewritten>>

\* clone_lun.get() after the offline PATCH; the state is printed, not tested
v3_offline_get ==
    /\ pc = "v3_offline_get"
    /\ V3Refresh("v3_offline_get", "v3_serial_patch", ig)

\* clone_lun.serial_number = parent_serial_number; clone_lun.patch()
v3_serial_patch ==
    /\ V3 /\ pc = "v3_serial_patch"
    /\ serialPatches' = serialPatches + 1
    /\ \E o \in SdkOutcomes :
          IF o = "ok"
          THEN /\ lun_serial' = [lun_serial EXCEPT ![CurLun] =
                      V3SerialToWrite(parent_serial_number, CurLun)]
               /\ pc' = "v3_serial_get"
               /\ UNCHANGED error
          ELSE /\ V3Fail("NetAppRestError")
               /\ UNCHANGED lun_serial
    /\ UNCHANGED <<script, attempt, locals, result, quiesce_ret>>
    /\ UNCHANGED hist
    /\ UNCHANGED toolVars
    /\ UNCHANGED <<cloneArgs, cloneProg, clone_exists, lun_online, lun_maps,
                   offlineRead, mapPosts, dupMapPosts, rewritten>>

\* clone_lun.get() after the serial PATCH; the serial is printed, not tested
v3_serial_get ==
    /\ pc = "v3_serial_get"
    /\ V3Refresh("v3_serial_get", "v3_online_patch", ig)

\* clone_lun.enabled = 'true'; clone_lun.patch()
v3_online_patch ==
    /\ V3 /\ pc = "v3_online_patch"
    /\ \E o \in SdkOutcomes :
          IF o = "ok"
          THEN /\ lun_online' = [lun_online EXCEPT ![CurLun] =
                                                 V3EnabledAfterRewrite]
               /\ rewritten' = rewritten \cup {CurLun}
               /\ pc' = "v3_online_get"
               /\ UNCHANGED error
          ELSE /\ V3Fail("NetAppRestError")
               /\ UNCHANGED <<lun_online, rewritten>>
    /\ UNCHANGED <<script, attempt, locals, result, quiesce_ret>>
    /\ UNCHANGED hist
    /\ UNCHANGED toolVars
    /\ UNCHANGED <<cloneArgs, cloneProg, clone_exists, lun_serial, lun_maps,
                   offlineRead, serialPatches, mapPosts, dupMapPosts>>

\* clone_lun.get() after the online PATCH; then the loop over the igroups
v3_online_get ==
    /\ pc = "v3_online_get"
    /\ V3Refresh("v3_online_get", "v3_map_post", 1)

\* resourcelun.post(hydrate=True) for (clone_lun.name, igroup); there is no
\* query for an existing mapping before it
v3_map_post ==
    /\ V3 /\ pc = "v3_map_post"
    /\ mapPosts' = mapPosts + 1
    /\ dupMapPosts' = IF <<CurLun, ig>> \in lun_maps
                      THEN dupMapPosts + 1 ELSE dupMapPosts
    /\ \E o \in SdkOutcomes :
          IF o = "ok" /\ <<CurLun, ig>> \notin lun_maps
          THEN /\ lun_maps' = lun_maps \cup {<<CurLun, ig>>}
               /\ V3AdvanceIgroup
               /\ UNCHANGED error
          ELSE /\ V3Fail("NetAppRestError")
               /\ UNCHANGED <<lun_maps, ig, cl, pl, vol>>
    /\ UNCHANGED <<script, attempt, locals, result, quiesce_ret>>
    /\ UNCHANGED hist
    /\ UNCHANGED toolVars
    /\ UNCHANGED <<cloneArgs, clone_list, parent_serial_number,
                   clone_lun_state, clone_exists, lun_online, lun_serial,
                   offlineRead, serialPatches, rewritten>>

(* ------------------------------------------------------------------ *)
(* clone_volume_and_manage_lun (lun_clone_test_v1)                     *)
(* ------------------------------------------------------------------ *)

T1 == script = "lun_clone_test_v1"

\* outcomes of Resource.find: one record, no record (None), or an error
FindOutcomes == {"found", "none", "NetAppRestError"}

\* `except NetAppRestError as error: ... return None`
T1Fail(why) ==
    /\ pc' = "t1_returned"
    /\ error' = why

\* `raise ValueError(...)` inside the try block, which has no clause for it
T1Raise ==
    /\ pc' = "t1_raised"
    /\ error' = "ValueError"

\* a find followed by `if not x: raise ValueError`
T1Find(here, next) ==
    /\ T1 /\ pc = here
    /\ \E o \in FindOutcomes :
          CASE o = "found" -> pc' = next /\ UNCHANGED error
            [] o = "none"  -> T1Raise
            [] OTHER       -> T1Fail(o)
    /\ UNCHANGED <<script, attempt, locals, result, quiesce_ret>>
    /\ UNCHANGED hist
    /\ UNCHANGED toolVars
    /\ UNCHANGED cloneVars

\* Volume.find(name=source_volume_name)
t1_volume_find ==
    /\ pc = "t1_volume_find"
    /\ T1Find("t1_volume_find", "t1_volume_post")

\* new_volume.post()
t1_volume_post ==
    /\ T1 /\ pc = "t1_volume_post"
    /\ \E o \in SdkOutcomes :
          IF o = "ok" /\ ~clone_exists
          THEN /\ clone_exists' = TRUE
               /\ pc' = "t1_lun_find"
               /\ UNCHANGED error
          ELSE /\ T1Fail("NetAppRestError")
               /\ UNCHANGED clone_exists
    /\ UNCHANGED <<script, attempt, locals, result, quiesce_ret>>
    /\ UNCHANGED hist
    /\ UNCHANGED toolVars
    /\ UNCHANGED <<cloneArgs, cloneProg, lun_online, lun_serial, lun_maps,
                   cloneHist>>

\* Lun.find(path=new_lun_path)
t1_lun_find ==
    /\ pc = "t1_lun_find"
    /\ T1Find("t1_lun_find", "t1_igroup_find")

\* Igroup.find(name=igroup_name)
t1_igroup_find ==
    /\ pc = "t1_igroup_find"
    /\ T1Find("t1_igroup_find", "t1_map_check")

\* `not mappings`: mappings is the iterable that LunMap.get_collection
\* returns; it fetches records only when iterated over, and as an object
\* without a length it is true whatever the query would return
T1MappingsAbsent(records) == FALSE

\* LunMap.get_collection(..), `if not mappings:` and the mapping create
\* request with logical_unit_number=0 under it
t1_map_check ==
    /\ T1 /\ pc = "t1_map_check"
    /\ IF T1MappingsAbsent({m \in lun_maps : m = <<1, 1>>})
       THEN /\ mapPosts' = mapPosts + 1
            /\ dupMapPosts' = dupMapPosts
            /\ \E o \in SdkOutcomes :
                  IF o = "ok"
                  THEN /\ lun_maps' = lun_maps \cup {<<1, 1>>}
                       /\ pc' = "t1_offline_patch"
                       /\ UNCHANGED error
                  ELSE /\ T1Fail("NetAppRestError")
                       /\ UNCHANGED lun_maps
       ELSE /\ pc' = "t1_offline_patch"
            /\ UNCHANGED <<error, lun_maps, mapPosts, dupMapPosts>>
    /\ UNCHANGED <<script, attempt, locals, result, quiesce_ret>>
    /\ UNCHANGED hist
    /\ UNCHANGED toolVars
    /\ UNCHANGED <<cloneArgs, cloneProg, clone_exists, lun_online, lun_serial,
                   offlineRead, serialPatches, rewritten>>

\* new_lun.state = 'offline'; new_lun.patch()
t1_offline_patch ==
    /\ T1 /\ pc = "t1_offline_patch"
    /\ offlineRead' = FALSE
    /\ \E o \in SdkOutcomes :
          IF o = "ok"
          THEN /\ lun_online' = [lun_online EXCEPT ![1] = FALSE]
               /\ pc' = "t1_serial_patch"
               /\ UNCHANGED error
          ELSE /\ T1Fail("NetAppRestError")
               /\ UNCHANGED lun_online
    /\ UNCHANGED <<script, attempt, locals, result, quiesce_ret>>
    /\ UNCHANGED hist
    /\ UNCHANGED toolVars
    /\ UNCHANGED <<cloneArgs, cloneProg, clone_exists, lun_serial, lun_maps,
                   serialPatches, mapPosts, dupMapPosts, rewritten>>

\* new_lun.serial_number = parent_lun_serial; new_lun.patch()
t1_serial_patch ==
    /\ T1 /\ pc = "t1_serial_patch"
    /\ serialPatches' = serialPatches + 1
    /\ \E o \in SdkOutcomes :
          IF o = "ok"
          THEN /\ lun_serial' = [lun_serial EXCEPT ![1] = PSerial(1, 1)]
               /\ pc' = "t1_online_patch"
               /\ UNCHANGED error
          ELSE /\ T1Fail("NetAppRestError")
               /\ UNCHANGED lun_serial
    /\ UNCHANGED <<script, attempt, locals, result, quiesce_ret>>
    /\ UNCHANGED hist
    /\ UNCHANGED toolVars
    /\ UNCHANGED <<cloneArgs, cloneProg, clone_exists, lun_online, lun_maps,
                   offlineRead, mapPosts, dupMapPosts, rewritten>>

\* new_lun.state = 'online'; new_lun.patch(); return new_lun_serial
t1_online_patch ==
    /\ T1 /\ pc = "t1_online_patch"
    /\ \E o \in SdkOutcomes :
          IF o = "ok"
          THEN /\ lun_online' = [lun_online EXCEPT ![1] = TRUE]
               /\ rewritten' = rewritten \cup {1}
               /\ pc' = "t1_returned"
               /\ UNCHANGED error
          ELSE /\ T1Fail("NetAppRestError")
               /\ UNCHANGED <<lun_online, rewritten>>
    /\ UNCHANGED <<script, attempt, locals, result, quiesce_ret>>
    /\ UNCHANGED hist
    /\ UNCHANGED toolVars
    /\ UNCHANGED <<cloneArgs, cloneProg, clone_exists, lun_serial, lun_maps,
                   offlineRead, serialPatches, mapPosts, dupMapPosts>>

\* exit status of the process when main() of na_dbbackup_v2 has ended:
\* main() has no return value and the script calls no exit function, so
\* the status is 0 unless an exception leaves main()
ExitStatus == IF pc = "crashed" THEN 1 ELSE 0

(* ------------------------------------------------------------------ *)
(* create_clone (na_oracle_dbbackup, na_oracle_dbbackup_v7)            *)
(* ------------------------------------------------------------------ *)

CC == script = "create_clone"

\* the decimal digit d as a character
Digit(d) == <<"0", "1", "2", "3", "4", "5", "6", "7", "8", "9">>[d + 1]

\* %d, %m, %H, %M, %S: two digits, zero-padded
Pad2(n) == <<Digit(n \div 10), Digit(n % 10)>>

\* %Y: four digits
Pad4(n) == <<Digit(n \div 1000), Digit((n \div 100) % 10),
             Digit((n \div 10) % 10), Digit(n % 10)>>

\* mutation of strftime: month before day
strftime_monthfirst(t) ==
    Pad2(t.month) \o Pad2(t.day) \o Pad4(t.year) \o <<"_">>
      \o Pad2(t.hour) \o Pad2(t.minute) \o Pad2(t.second)

\* now.strftime("%d%m%Y_%H%M%S"), as the sequence of its characters
strftime(t) ==
    Pad2(t.day) \o Pad2(t.month) \o Pad4(t.year) \o <<"_">>
      \o Pad2(t.hour) \o Pad2(t.minute) \o Pad2(t.second)

\* snapshot_name + '_CLONE_' + dt_string
clone_name_auto(snapshot_name, dt_string) ==
    <<snapshot_name, "_CLONE_">> \o dt_string

\* `if clone_name_manual: clone_name = clone_name_manual
\*  else: clone_name = clone_name_auto`
CloneNameChoice(manual, auto) == IF manual /= NoName THEN manual ELSE auto

\* get_key_volume returns or raises; create_clone does not use its result
\* and calls it outside the try block
KeyOutcomes == {"ok", "raised"}

\* get_key_volume, datetime.now() and the choice of the clone name
create_clone_name ==
    /\ CC /\ pc = "create_clone_name"
    /\ \E k \in KeyOutcomes :
          IF k = "ok"
          THEN /\ now' \in Clock
               /\ clone_name' =
                    CloneNameChoice(args.clone_name,
                        clone_name_auto(args.snapshot, strftime(now')))
               /\ pc' = "create_clone_post"
               /\ UNCHANGED error
          ELSE /\ pc' = "crashed"
               /\ error' = "raised"
               /\ UNCHANGED <<now, clone_name>>
    /\ UNCHANGED <<script, attempt, locals, result, quiesce_ret>>
    /\ UNCHANGED hist
    /\ UNCHANGED cloneVars
    /\ UNCHANGED <<args, posted, hostVars, lunVars, moreVars>>

\* Volume.from_dict({...}) and snapshotclone.post(hydrate=True)
create_clone_post ==
    /\ CC /\ pc = "create_clone_post"
    /\ posted' = [name |-> clone_name,
                  parent_volume |-> args.volume_name,
                  parent_snapshot |-> args.snapshot]
    /\ \E o \in SdkOutcomes :
          error' = IF o = "ok" THEN error ELSE o
    /\ pc' = "create_clone_returned"
    /\ UNCHANGED <<script, attempt, locals, result, quiesce_ret>>
    /\ UNCHANGED hist
    /\ UNCHANGED cloneVars
    /\ UNCHANGED <<args, now, clone_name, hostVars, lunVars, moreVars>>

(* ------------------------------------------------------------------ *)
(* mount_volume (na_dbbackup_v2, na_dbbackup_v1) called in a row       *)
(* ------------------------------------------------------------------ *)

MV == script = "mount_volume"

\* what a call of mount_volume gives its caller
MountRet(o) ==
    IF o = "ok" THEN "True" ELSE IF o = "OSError" THEN "raised" ELSE "False"

\* the call returns ret to its caller, which calls again with the same
\* arguments unless the call raised
MountCallEnds(ret, o) ==
    /\ mountRets' = Append(mountRets, ret)
    /\ error' = IF ret = "True" THEN error ELSE o
    /\ pc' = IF ret = "raised" THEN "crashed"
             ELSE IF Len(mountRets) + 1 < MaxCalls THEN "mount_call"
             ELSE "mount_done"

\* one call of mount_volume on the host as the previous call left it: a
\* mkdir that succeeds creates the mount point, a mount that succeeds makes
\* it a mounted file system
mount_call ==
    /\ MV /\ pc = "mount_call"
    /\ \E mk \in CmdOutcomes, mnt \in CmdOutcomes :
          IF MountSkips(mp_exists, mp_mounted)
          THEN /\ MountCallEnds("True", "ok")
               /\ UNCHANGED <<mountCmds, mp_exists, mp_mounted>>
          ELSE IF ~mp_exists /\ mk /= "ok"
               THEN /\ MountCallEnds(MountRet(mk), mk)
                    /\ UNCHANGED <<mountCmds, mp_exists, mp_mounted>>
               ELSE /\ mp_exists' = TRUE
                    /\ mountCmds' = mountCmds + 1
                    /\ mp_mounted' = (mp_mounted \/ mnt = "ok")
                    /\ MountCallEnds(MountRet(mnt), mnt)
    /\ UNCHANGED <<script, attempt, locals, result, quiesce_ret>>
    /\ UNCHANGED <<started, failed, requests, observed, jobHist, statePolls>>
    /\ UNCHANGED cloneVars
    /\ UNCHANGED <<createVars, lunVars, moreVars>>

(* ------------------------------------------------------------------ *)
(* break_snapmirror (na_dbbackup_v1)                                   *)
(* ------------------------------------------------------------------ *)

V1B == script = "break_snapmirror_v1"

\* break_snapmirror of na_dbbackup_v1 returns
V1BreakReturn(ok, why) ==
    /\ result' = [result EXCEPT !["break_snapmirror"] =
                                   IF ok THEN "True" ELSE "False"]
    /\ error' = IF ok THEN error ELSE why
    /\ failed' = (failed \/ ~ok)
    /\ pc' = "v1_break_returned"

\* GET relationships?destination.path=..&fields=uuid
v1_break_lookup ==
    /\ V1B /\ pc = "v1_break_lookup"
    /\ Enter("break_snapmirror")
    /\ \E o \in LookupOutcomes :
          IF o = "found"
          THEN /\ pc' = "v1_break_patch"
               /\ UNCHANGED <<result, error, failed>>
          ELSE V1BreakReturn(FALSE, LookupError(o))
    /\ UNCHANGED <<script, attempt, locals, quiesce_ret>>
    /\ UNCHANGED <<requests, observed, jobHist, statePolls, mountCmds>>
    /\ UNCHANGED cloneVars
    /\ UNCHANGED toolVars

\* PATCH {"state": "broken_off"} and `return True` once it is answered
v1_break_patch ==
    /\ V1B /\ pc = "v1_break_patch"
    /\ breakPatches' = breakPatches + 1
    /\ \E o \in ReqFailures \cup {"ok"} : V1BreakReturn(o = "ok", o)
    /\ UNCHANGED <<script, attempt, locals, quiesce_ret, started>>
    /\ UNCHANGED <<transferPosts, quiescePatches, observed, jobHist,
                   statePolls, mountCmds>>
    /\ UNCHANGED cloneVars
    /\ UNCHANGED toolVars

(* ------------------------------------------------------------------ *)
(* clone_lun (na_oracle_dbbackup_v7)                                   *)
(* ------------------------------------------------------------------ *)

L7 == script = "clone_lun_v7"

\* what requests.post gives: status 200, another status, or an exception
PostOutcomes == {"200", "rejected", "RequestException"}

\* `except Exception as error: print(...)` around the loop over the volumes
L7Fail(why) ==
    /\ pc' = "v7_clone_lun_returned"
    /\ error' = why

\* `for vol in volume_name`: the next volume, or the end of the function
L7NextVolume ==
    IF vol < nVols
    THEN vol' = vol + 1 /\ pc' = "v7_break_post"
    ELSE vol' = vol /\ pc' = "v7_clone_lun_returned"

\* requests.post(.../break) and the test of the status code; another
\* status prints the error and continues with the next volume
v7_break_post ==
    /\ L7 /\ pc = "v7_break_post"
    /\ tried' = tried \cup {vol}
    /\ \E o \in PostOutcomes :
          CASE o = "200" ->
                 /\ broken' = broken \cup {vol}
                 /\ pc' = "v7_rescan"
                 /\ UNCHANGED <<vol, error>>
            [] o = "rejected" ->
                 /\ L7NextVolume
                 /\ UNCHANGED <<broken, error>>
            [] OTHER ->
                 /\ L7Fail(o)
                 /\ UNCHANGED <<broken, vol>>
    /\ UNCHANGED <<script, attempt, locals, result, quiesce_ret>>
    /\ UNCHANGED hist
    /\ UNCHANGED <<cloneArgs, pl, cl, ig, clone_list, parent_serial_number,
                   clone_lun_state, controller, cloneHist>>
    /\ UNCHANGED <<createVars, hostVars, hosted, moreVars>>

\* a subprocess.run(.., check=True) of clone_lun: any exception it raises
\* is caught by the except clause around the loop
L7Command(here, next) ==
    /\ L7 /\ pc = here
    /\ hosted' = hosted \cup {vol}
    /\ \E o \in CmdOutcomes :
          IF o = "ok"
          THEN /\ IF next = "next_volume"
                  THEN L7NextVolume
                  ELSE pc' = next /\ UNCHANGED vol
               /\ UNCHANGED error
          ELSE /\ L7Fail(o)
               /\ UNCHANGED vol
    /\ mountCmds' = IF here = "v7_mount" THEN mountCmds + 1 ELSE mountCmds
    /\ UNCHANGED <<script, attempt, locals, result, quiesce_ret>>
    /\ UNCHANGED <<started, failed, requests, observed, jobHist, statePolls>>
    /\ UNCHANGED <<cloneArgs, pl, cl, ig, clone_list, parent_serial_number,
                   clone_lun_state, controller, cloneHist>>
    /\ UNCHANGED <<createVars, hostVars, tried, broken, moreVars>>

\* iscsiadm -m node -R
v7_rescan ==
    /\ pc = "v7_rescan"
    /\ L7Command("v7_rescan", "v7_multipath")

\* multipath -r
v7_multipath ==
    /\ pc = "v7_multipath"
    /\ L7Command("v7_multipath", "v7_mount")

\* mount /dev/mapper/<lun_serial_number> <mount_path>
v7_mount ==
    /\ pc = "v7_mount"
    /\ L7Command("v7_mount", "next_volume")

(* ------------------------------------------------------------------ *)
(* The relationship lookups of one run of na_dbbackup_v2               *)
(* (get_destination_path, update_snapmirror, break_snapmirror);        *)
(* records[0] is any of the records that match the query               *)
(* ------------------------------------------------------------------ *)

RR == script = "resolve_relationship"

\* ?source.path={source_path}&list_destinations_only=true
DestinationMatches(r, src) == r.source = src

\* ?source.path={source_path}&destination.path={destination_path}
UpdateMatches(r, src, dst) == r.source = src /\ r.destination = dst

\* mutation of BreakMatches: the query has no filter
BreakMatches_any(r, dst) == TRUE

\* ?destination.path={destination_path}
BreakMatches(r, dst) == r.destination = dst

\* `if not relationships.get('records'): raise ValueError(...)`
ResolveFails ==
    /\ pc' = "resolve_returned"
    /\ error' = "not_found"

\* get_destination_path: records[0]['destination']['path']
resolve_destination ==
    /\ RR /\ pc = "resolve_destination"
    /\ LET records == {r \in rels : DestinationMatches(r, source_path)}
       IN  IF records = {}
           THEN ResolveFails /\ UNCHANGED destination_path
           ELSE /\ \E r \in records : destination_path' = r.destination
                /\ pc' = "resolve_update"
                /\ UNCHANGED error
    /\ UNCHANGED <<script, attempt, locals, result, quiesce_ret>>
    /\ UNCHANGED hist
    /\ UNCHANGED cloneVars
    /\ UNCHANGED <<createVars, hostVars, lunVars, delVars>>
    /\ UNCHANGED <<rels, source_path, update_uuid, break_uuid>>

\* update_snapmirror: records[0]['uuid']
resolve_update ==
    /\ RR /\ pc = "resolve_update"
    /\ LET records == {r \in rels :
                          UpdateMatches(r, source_path, destination_path)}
       IN  IF records = {}
           THEN ResolveFails /\ UNCHANGED update_uuid
           ELSE /\ \E r \in records : update_uuid' = r.uuid
                /\ pc' = "resolve_break"
                /\ UNCHANGED error
    /\ UNCHANGED <<script, attempt, locals, result, quiesce_ret>>
    /\ UNCHANGED hist
    /\ UNCHANGED cloneVars
    /\ UNCHANGED <<createVars, hostVars, lunVars, delVars>>
    /\ UNCHANGED <<rels, source_path, destination_path, break_uuid>>

\* break_snapmirror: records[0]['uuid']
resolve_break ==
    /\ RR /\ pc = "resolve_break"
    /\ LET records == {r \in rels : BreakMatches(r, destination_path)}
       IN  IF records = {}
           THEN ResolveFails /\ UNCHANGED break_uuid
           ELSE /\ \E r \in records : break_uuid' = r.uuid
                /\ pc' = "resolve_returned"
                /\ UNCHANGED error
    /\ UNCHANGED <<script, attempt, locals, result, quiesce_ret>>
    /\ UNCHANGED hist
    /\ UNCHANGED cloneVars
    /\ UNCHANGED <<createVars, hostVars, lunVars, delVars>>
    /\ UNCHANGED <<rels, source_path, destination_path, update_uuid>>

(* ------------------------------------------------------------------ *)
(* delete_clone (na_oracle_dbbackup, na_oracle_dbbackup_v7)            *)
(* ------------------------------------------------------------------ *)

DC == script = "delete_clone"

\* an exception that no except clause of delete_clone catches
DeleteRaises(why) ==
    /\ pc' = "crashed"
    /\ error' = why

\* get_key_volume, then `volume = Volume.find(uuid = vol_uuid)` in a try
\* block of its own: a NetAppRestError is printed and volume stays unbound
delete_clone_find ==
    /\ DC /\ pc = "delete_clone_find"
    /\ \E k \in KeyOutcomes, o \in FindOutcomes :
          IF k = "raised"
          THEN /\ DeleteRaises("raised")
               /\ UNCHANGED volume
          ELSE /\ volume' = CASE o = "found" -> "record"
                              [] o = "none"  -> "None"
                              [] OTHER       -> "unbound"
               /\ pc' = "delete_clone_check"
               /\ UNCHANGED error
    /\ UNCHANGED <<script, attempt, locals, result, quiesce_ret>>
    /\ UNCHANGED hist
    /\ UNCHANGED cloneVars
    /\ UNCHANGED <<createVars, hostVars, lunVars, lookupVars>>
    /\ UNCHANGED <<is_flexclone, deletes, reported>>

\* what clone.is_flexclone of the volume read can be; reading a field that
\* is not set raises AttributeError
FlexcloneValues == {"true", "false", "unset"}

\* mutation of IsFlexclone: the test is left out
IsFlexclone_any(f) == TRUE

\* `if volume_clone.clone.is_flexclone == True`
IsFlexclone(f) == f = "true"

\* `volume_clone = Volume.find(uuid = vol_uuid)`, the test of is_flexclone,
\* and under it volume.delete(poll=True) or the 'not a Clone' message
delete_clone_check ==
    /\ DC /\ pc = "delete_clone_check"
    /\ \E o \in FindOutcomes, f \in FlexcloneValues, d \in SdkOutcomes :
          CASE o = "NetAppRestError" ->
                 /\ pc' = "delete_clone_returned"
                 /\ error' = o
                 /\ UNCHANGED <<is_flexclone, deletes, reported>>
            [] o = "none" ->
                 /\ DeleteRaises("AttributeError")
                 /\ UNCHANGED <<is_flexclone, deletes, reported>>
            [] OTHER ->
                 /\ is_flexclone' = f
                 /\ IF f = "unset"
                    THEN /\ DeleteRaises("AttributeError")
                         /\ UNCHANGED <<deletes, reported>>
                    ELSE IF IsFlexclone(f)
                    THEN IF volume = "record"
                         THEN /\ deletes' = deletes + 1
                              /\ pc' = "delete_clone_returned"
                              /\ error' = IF d = "ok" THEN error ELSE d
                              /\ UNCHANGED reported
                         ELSE /\ DeleteRaises(IF volume = "None"
                                              THEN "AttributeError"
                                              ELSE "UnboundLocalError")
                              /\ UNCHANGED <<deletes, reported>>
                    ELSE /\ reported' = TRUE
                         /\ pc' = "delete_clone_returned"
                         /\ UNCHANGED <<error, deletes>>
    /\ UNCHANGED <<script, attempt, locals, result, quiesce_ret>>
    /\ UNCHANGED hist
    /\ UNCHANGED cloneVars
    /\ UNCHANGED <<createVars, hostVars, lunVars, lookupVars>>
    /\ UNCHANGED volume

Next ==
    \/ validate_source_volume
    \/ get_destination_path
    \/ update_lookup
    \/ update_post
    \/ update_poll
    \/ break_lookup
    \/ quiesce_patch
    \/ quiesce_job
    \/ quiesce_verify
    \/ break_patch
    \/ break_job
    \/ break_verify
    \/ scan_iscsi
    \/ refresh_multipath
    \/ mount_volume
    \/ v1_update_lookup
    \/ v1_update_post
    \/ v1_update_poll
    \/ v7_list_sources
    \/ v7_list_destinations
    \/ v7_get
    \/ v7_post
    \/ v7_transfer_get
    \/ v3_clone_post
    \/ v3_parent_list
    \/ v3_parent_get
    \/ v3_clone_list
    \/ v3_clone_get
    \/ v3_offline_patch
    \/ v3_offline_get
    \/ v3_serial_patch
    \/ v3_serial_get
    \/ v3_online_patch
    \/ v3_online_get
    \/ v3_map_post
    \/ t1_volume_find
    \/ t1_volume_post
    \/ t1_lun_find
    \/ t1_igroup_find
    \/ t1_map_check
    \/ t1_offline_patch
    \/ t1_serial_patch
    \/ t1_online_patch
    \/ create_clone_name
    \/ create_clone_post
    \/ mount_call
    \/ v1_break_lookup
    \/ v1_break_patch
    \/ v7_break_post
    \/ v7_rescan
    \/ v7_multipath
    \/ v7_mount
    \/ resolve_destination
    \/ resolve_update
    \/ resolve_break
    \/ delete_clone_find
    \/ delete_clone_check

Spec == Init /\ [][Next]_vars

\* each script is one sequential process that runs until it returns: a
\* step that can be taken is eventually taken
LiveSpec == Spec /\ WF_vars(Next)


(* ------------------------------------------------------------------ *)
(* Properties                                                          *)
(* ------------------------------------------------------------------ *)

V2 == script = "na_dbbackup_v2"

BreakReturned == result["break_snapmirror"] /= "none"

\* C1: break_snapmirror (na_dbbackup_v2) returns True only if a read of the
\* relationship made after the broken_off PATCH returned 'broken_off'; in
\* every other outcome in which it returns, it returns False.
C1_BreakSucceedsOnlyWhenBrokenObserved ==
    V2 =>
      /\ brokenSeen => breakPatches = 1 /\ current_state = "broken_off"
      /\ BreakReturned =>
            /\ result["break_snapmirror"] \in {"True", "False"}
            /\ result["break_snapmirror"] = "True" <=> brokenSeen

C1_Witness ==
    /\ V2
    /\ result["break_snapmirror"] = "True"
    /\ break_initial = "snapmirrored"
    /\ brokenSeen

\* C2: when the lookup of break_snapmirror reads a state that is neither
\* 'snapmirrored' nor the paused/quiesced state, break_snapmirror returns
\* False and has issued neither a quiesce PATCH nor a broken_off PATCH.
C2_PreconditionFailureSendsNothing ==
    (V2 /\ break_initial \notin {"unread", "snapmirrored", "quiesced", "paused"})
      => /\ result["break_snapmirror"] = "False"
         /\ error = "precondition"
         /\ quiescePatches = 0
         /\ breakPatches = 0

C2_Witness ==
    /\ V2
    /\ break_initial = "transferring"
    /\ result["break_snapmirror"] = "False"
    /\ pc = "returned"

\* C3: the broken_off PATCH is issued only after the relationship was read
\* as 'quiesced': either by the lookup, or, when the lookup read
\* 'snapmirrored', by a read that followed the quiesce PATCH and made
\* quiesce_snapmirror return True.  After a failed quiesce no broken_off
\* PATCH is sent.
C3_BreakOnlyAfterQuiescedObserved ==
    V2 =>
      /\ breakPatches > 0 =>
            \/ break_initial = "quiesced" /\ quiescePatches = 0
            \/ /\ break_initial = "snapmirrored"
               /\ quiescePatches = 1
               /\ quiesce_ret = "True"
               /\ quiescedSeen
      /\ quiesce_ret = "False" => breakPatches = 0

C3_Witness ==
    /\ V2
    /\ breakPatches = 1
    /\ break_initial = "snapmirrored"
    /\ quiesce_ret = "True"
    /\ quiescedSeen

\* C4: update_snapmirror (na_dbbackup_v2) returns True only if the last
\* relationship state it read after the transfer POST is 'snapmirrored'.
C4_UpdateSucceedsOnlyWhenSnapmirrored ==
    (V2 /\ result["update_snapmirror"] = "True")
      => /\ transferPosts = 1
         /\ rel_state = "snapmirrored"

C4_Witness ==
    /\ V2
    /\ result["update_snapmirror"] = "True"
    /\ transfer_state = "success"
    /\ pc = "break_lookup"

\* C5: in update_snapmirror of na_dbbackup_v2 and of na_oracle_dbbackup_v7
\* the transfer POST is issued only after a read of the relationship
\* returned 'snapmirrored'.
C5_TransferOnlyAfterSnapmirroredRead ==
    (script \in {"na_dbbackup_v2", "na_oracle_dbbackup_v7"} /\ transferPosts > 0)
      => snapmirroredRead

\* C6: update_snapmirror (na_dbbackup_v2) does not return True when the
\* transfer state it last read is 'failed'.
C6_UpdateFailsWhenTransferFailed ==
    (V2 /\ result["update_snapmirror"] = "True") => transfer_state /= "failed"

\* C7: main() of na_dbbackup_v2 starts its steps in the fixed order
\* validate, resolve destination, update, break, rescan, multipath, mount;
\* a step is started only if every earlier step returned True, so the
\* first step that fails is the last one started.
C7_StepsInOrderUntilFirstFailure ==
    V2 =>
      /\ Len(started) <= Len(StepOrder)
      /\ \A i \in 1..Len(started) :
            /\ started[i] = StepOrder[i]
            /\ i < Len(started) => result[started[i]] = "True"
      /\ \A s \in Steps :
            /\ result[s] /= "none" => \E i \in 1..Len(started) : started[i] = s
            /\ result[s] \in {"False", "raised"} => started[Len(started)] = s

C7_Witness ==
    /\ V2
    /\ pc = "returned"
    /\ result["refresh_multipath"] = "False"
    /\ started = SubSeq(StepOrder, 1, 6)

\* C8: once a step of the cutover has failed, no state-changing request
\* (transfer POST, quiesce PATCH, broken_off PATCH) is issued any more.
C8_NoStateChangeAfterFailure ==
    [][(V2 /\ failed) => UNCHANGED <<transferPosts, quiescePatches, breakPatches>>]_vars

C8_Witness ==
    /\ V2
    /\ failed
    /\ pc = "returned"
    /\ quiescePatches = 1
    /\ quiesce_ret = "True"
    /\ breakPatches = 1
    /\ result["break_snapmirror"] = "False"

C10_PollsWithinBudget ==
    /\ statePolls <= max_attempts
    /\ jobReads <= max_attempts

\* C11: when a bounded wait of update, quiesce or break (na_dbbackup_v2) is
\* exhausted, the value returned to the caller differs from False, the
\* value returned for a definite failure.
C11_TimeoutDistinctFromFailure ==
    (V2 /\ error = "timeout") => \A s \in Steps : result[s] /= "False"

\* states that are neither the target of a quiesce nor a state the
\* relationship passes through on the way to it
UnexpectedWhileQuiescing == {"uninitialized", "broken_off"}

\* states that are neither the target of a break nor a state the
\* relationship passes through on the way to it
UnexpectedWhileBreaking == {"uninitialized"}

\* C12: while a quiesce or a break is being confirmed, a poll that returns
\* an unexpected relationship state is the last poll: the operation stops
\* there instead of polling again.
C12_UnexpectedStateStopsPolling ==
    [][(/\ V2
        /\ statePolls > 0
        /\ \/ pc = "quiesce_verify" /\ current_state \in UnexpectedWhileQuiescing
           \/ pc = "break_verify" /\ current_state \in UnexpectedWhileBreaking)
       => statePolls' = statePolls]_vars

\* C13: 'paused' is treated like 'quiesced': a relationship whose lookup
\* reads 'paused' is not rejected and needs no quiesce, and a quiesce is
\* confirmed (polling ends) when a poll reads 'paused'.
C13_PausedEquivalentToQuiesced ==
    V2 =>
      /\ break_initial = "paused" => error /= "precondition"
      /\ ~(pc = "quiesce_verify" /\ statePolls > 0 /\ current_state = "paused")

\* C14: when the last PATCH response carried no job id, no job-status read
\* is issued for it, the operation polls the relationship state directly
\* and only that poll decides: a quiesce succeeds only on a read of
\* 'quiesced', a break only on a read of 'broken_off', and no job failure
\* is reported.
C14_NoJobNoJobRead ==
    (V2 /\ ~job_id) =>
      /\ jobReads = 0
      /\ ~jobLoopDone
      /\ pc \notin {"quiesce_job", "break_job"}
      /\ error /= "job_failure"
      /\ quiesce_ret = "True" => quiescedSeen
      /\ result["break_snapmirror"] = "True" <=> brokenSeen

C14_Witness ==
    /\ V2
    /\ ~job_id
    /\ break_initial = "quiesced"
    /\ breakPatches = 1
    /\ statePolls > 1
    /\ result["break_snapmirror"] = "True"

\* C15: when the job of a quiesce or break ends in 'failure', the operation
\* returns False without a single poll of the relationship state; after a
\* failed quiesce job no broken_off PATCH is sent.
C15_JobFailureEndsOperation ==
    (V2 /\ jobLoopDone /\ job_state = "failure") =>
      /\ result["break_snapmirror"] = "False"
      /\ error = "job_failure"
      /\ statePolls = 0
      /\ quiesce_ret = "False" => breakPatches = 0

C15_Witness ==
    /\ V2
    /\ jobLoopDone
    /\ job_state = "failure"
    /\ quiesce_ret = "False"
    /\ quiescePatches = 1
    /\ pc = "returned"

\* C16: in clone_lun (na_oracle_dbbackup_v3) and in
\* clone_volume_and_manage_lun (lun_clone_test_v1) the PATCH that writes
\* the serial number is sent only when a read made after the offline PATCH
\* has shown the LUN offline.
C16_SerialWrittenOnlyAfterOfflineRead ==
    [][((V3 \/ T1) /\ serialPatches' > serialPatches) => offlineRead]_vars

\* C17: with one parent LUN and one clone LUN, when clone_lun
\* (na_oracle_dbbackup_v3) ends without reporting an error, the clone LUN
\* carries the serial number read from the parent LUN and is online.
C17_SingleLunIdentity ==
    (V3 /\ pc = "v3_returned" /\ error = "none" /\ nParent = 1 /\ nClone = 1)
      => /\ parent_serial_number = PSerial(1, 1)
         /\ lun_serial[1] = parent_serial_number
         /\ lun_online[1]

C17_Witness ==
    /\ V3
    /\ pc = "v3_returned"
    /\ error = "none"
    /\ nParent = 1
    /\ nClone = 1
    /\ rewritten = {1}
    /\ lun_serial[1] /= CSerial(1)
    /\ Cardinality(lun_maps) = 2

\* The serials of the parent LUNs that have the suffix of clone LUN c, in
\* any of the volumes handed to clone_lun.
CorrespondingParent(c) == {PSerial(v, c) : v \in 1..nVols}

\* C18: when the parent volume has several LUNs, at the end of clone_lun
\* (na_oracle_dbbackup_v3) every clone LUN that was rewritten carries the
\* serial of the parent LUN with the same suffix, and no two of them carry
\* the same serial.
C18_SerialBySuffix ==
    (V3 /\ nParent >= 2 /\ nClone = nParent /\ pc = "v3_returned")
      => /\ \A c \in rewritten : lun_serial[c] \in CorrespondingParent(c)
         /\ \A c1, c2 \in rewritten :
               c1 /= c2 => lun_serial[c1] /= lun_serial[c2]

\* C19: in every state of clone_lun (na_oracle_dbbackup_v3) a clone LUN
\* that is online carries either the serial it was created with or the
\* serial of its corresponding parent LUN.
C19_OnlineSerialIsDefinedIdentity ==
    V3 => \A c \in 1..nClone :
             lun_online[c] =>
                 lun_serial[c] \in {CSerial(c)} \cup CorrespondingParent(c)

\* C20: clone_lun (na_oracle_dbbackup_v3) sends no mapping create request
\* for a (clone LUN, initiator group) pair that is already mapped.
C20_NoCreateForExistingMapping ==
    V3 => dupMapPosts = 0

\* C21: in clone_volume_and_manage_lun (lun_clone_test_v1), once the
\* existing-mapping check is passed the new LUN is mapped to the initiator
\* group: a mapping was created when the query had no record, and no create
\* request was sent for a pair that was already mapped.
C21_MappingCreatedWhenAbsent ==
    (T1 /\ pc \in {"t1_offline_patch", "t1_serial_patch", "t1_online_patch"})
      => /\ <<1, 1>> \in lun_maps
         /\ mapPosts <= 1
         /\ dupMapPosts = 0

\* positions of clone_lun at which the offline PATCH of the current clone
\* LUN has been sent and its online PATCH has not been answered yet
V3Remapping ==
    {"v3_offline_get", "v3_serial_patch", "v3_serial_get", "v3_online_patch"}

\* C22: in clone_lun (na_oracle_dbbackup_v3) and in
\* clone_volume_and_manage_lun (lun_clone_test_v1) a clone LUN that is
\* mapped to an initiator group has been through its offline request,
\* serial rewrite and online request, and none of these is sent for a LUN
\* that is already mapped.
C22_MappedOnlyAfterRemap ==
    (V3 \/ T1) =>
        \A m \in lun_maps :
            /\ m[1] \in rewritten
            /\ ~(V3 /\ pc \in V3Remapping /\ CurLun = m[1])
            /\ ~(T1 /\ pc \in {"t1_serial_patch", "t1_online_patch"})

\* C23: when clone_lun (na_oracle_dbbackup_v3) ends without reporting an
\* error, every clone LUN is mapped to every requested initiator group.
C23_AllPairsMappedOnSuccess ==
    (V3 /\ pc = "v3_returned" /\ error = "none")
      => \A c \in 1..nClone : \A g \in 1..nIgroups : <<c, g>> \in lun_maps

\* C24: when clone_lun (na_oracle_dbbackup_v3) has ended, every volume of
\* args.volume_name has been taken up by the loop, whether or not an
\* earlier volume failed.
C24_FailureDoesNotStopLaterVolumes ==
    (V3 /\ pc = "v3_returned") => vol = nVols

\* the number a two-character field of a formatted time stands for
DigitValue(c) == CHOOSE d \in 0..9 : Digit(d) = c
TwoDigits(str, i) == 10 * DigitValue(str[i]) + DigitValue(str[i + 1])
FourDigits(str, i) == 100 * TwoDigits(str, i) + TwoDigits(str, i + 2)

\* str is the time t written as ddmmYYYY_HHMMSS
IsStampOf(str, t) ==
    /\ Len(str) = 15
    /\ str[9] = "_"
    /\ TwoDigits(str, 1) = t.day
    /\ TwoDigits(str, 3) = t.month
    /\ FourDigits(str, 5) = t.year
    /\ TwoDigits(str, 10) = t.hour
    /\ TwoDigits(str, 12) = t.minute
    /\ TwoDigits(str, 14) = t.second

\* C25: the volume create request of create_clone names the requested
\* parent volume and snapshot; the clone name is the supplied one when one
\* is supplied, and otherwise the snapshot name, '_CLONE_' and the current
\* time written as ddmmYYYY_HHMMSS.
C25_CloneNameAndParent ==
    (CC /\ posted /= NoRequest)
      => /\ posted.parent_volume = args.volume_name
         /\ posted.parent_snapshot = args.snapshot
         /\ args.clone_name /= NoName => posted.name = args.clone_name
         /\ args.clone_name = NoName =>
               /\ Len(posted.name) = 17
               /\ posted.name[1] = args.snapshot
               /\ posted.name[2] = "_CLONE_"
               /\ IsStampOf(SubSeq(posted.name, 3, 17), now)

C25_Witness ==
    /\ CC
    /\ pc = "create_clone_returned"
    /\ error = "none"
    /\ args.clone_name = NoName
    /\ now.day = 1
    /\ now.month = 12
    /\ posted.name[1] = "snapB"

\* C26: clone_lun (na_oracle_dbbackup_v3) never asks for a clone under a
\* name that a clone created earlier in the same invocation already has.
C26_CloneNamesUnique ==
    (V3 /\ pc = "v3_clone_post") => ~clone_exists

\* C27: in na_dbbackup_v2 neither update_snapmirror nor break_snapmirror
\* (with the quiesce inside it) returns failure because one of its
\* requests failed with a Conflict or a Transient outcome.
C27_ConflictAndTransientRetried ==
    V2 => \A s \in {"update_snapmirror", "break_snapmirror"} :
             result[s] = "False" => error \notin {"Conflict", "Transient"}

\* C28: in na_dbbackup_v2 every transfer POST, quiesced PATCH and
\* broken_off PATCH is sent in a state where the last request was a read
\* of the relationship that showed a state eligible for it.
C28_ReadBeforeEveryStateChange ==
    [][V2 =>
        /\ transferPosts' > transferPosts => rel_state = "snapmirrored"
        /\ quiescePatches' > quiescePatches => current_state = "snapmirrored"
        /\ breakPatches' > breakPatches => current_state = "quiesced"]_vars

\* rets, the return values of calls made in a row, and cmds, the number of
\* mount commands they issued: once a call has succeeded every later call
\* succeeds, and a first call that succeeds leaves at most one command
MountIdempotent(rets, cmds) ==
    /\ \A i \in 2..Len(rets) : rets[i - 1] = "True" => rets[i] = "True"
    /\ (Len(rets) >= 1 /\ rets[1] = "True") => cmds <= 1

C30_ExitStatusTellsFailure ==
    (V2 /\ pc \in {"completed", "returned", "crashed"})
      => (ExitStatus = 0 <=> \A s \in Steps : result[s] = "True")

\* C31: break_snapmirror of na_dbbackup_v1 returns True, and clone_lun of
\* na_oracle_dbbackup_v7 runs a host command, only after a read of the
\* relationship made after the break request showed 'broken_off'.
C31_SimpleBreaksConfirmed ==
    /\ (V1B /\ result["break_snapmirror"] = "True") => brokenSeen
    /\ (L7 /\ hosted /= {}) => brokenSeen

\* C32: when clone_lun of na_oracle_dbbackup_v7 has ended, the break
\* request of every volume of the list has been sent, and host commands
\* were run only for volumes whose break request succeeded.
C32_FailureSkipsOnlyItsVolume ==
    (L7 /\ pc = "v7_clone_lun_returned")
      => /\ tried = 1..nVols
         /\ hosted \subseteq broken

\* C33: when the job loop of break_snapmirror (na_dbbackup_v2) ends with
\* the job neither in 'success' nor in 'failure', break_snapmirror starts
\* its verification loop with a fresh budget and without returning, and the
\* verification loop that follows makes it return True exactly when a read
\* showed 'broken_off'.
C33_JobTimeoutFallsBackToStatePoll ==
    [][(V2 /\ job_id /\ job_state' \notin {"success", "failure"}) =>
        /\ (pc = "break_job" /\ jobLoopDone') =>
              /\ pc' = "break_verify"
              /\ attempt' = 0
              /\ statePolls' = 0
              /\ result' = result
        /\ (pc = "break_verify" /\ jobLoopDone /\ pc' /= pc) =>
              /\ statePolls' \in 1..max_attempts
              /\ result'["break_snapmirror"] = "True" <=> brokenSeen'
              /\ result'["break_snapmirror"] /= "none"]_vars

C33_Witness ==
    /\ V2
    /\ job_id
    /\ jobLoopDone
    /\ jobReads = max_attempts
    /\ job_state = "queued"
    /\ breakPatches = 1
    /\ result["break_snapmirror"] = "True"
    /\ statePolls = 2

\* C34: update_snapmirror (na_dbbackup_v2) does not return True on its
\* first poll after the transfer POST unless that poll showed the transfer
\* in a terminal state.
C34_UpdateWaitsForTriggeredTransfer ==
    [][(V2 /\ pc = "update_poll" /\ attempt = 0
           /\ result'["update_snapmirror"] = "True")
        => transfer_state' \in {"success", "failed"}]_vars

\* what releases break_snapmirror from returning True: a request failed or
\* found no relationship, the relationship was neither 'snapmirrored' nor
\* 'quiesced' at the call, a job ended in 'failure', or a verification
\* loop used its whole budget without a read of its target state
C35_Excused ==
    \/ error \in ReqFailures \cup {"not_found", "job_failure"}
    \/ break_initial \notin {"unread", "snapmirrored", "quiesced"}
    \/ /\ error = "timeout"
       /\ IF quiesce_ret = "False" THEN ~quiescedSeen ELSE ~brokenSeen

\* C35: once break_snapmirror (na_dbbackup_v2) is called it eventually
\* returns True, unless the run is excused as above.
C35_BreakEventuallySucceeds ==
    (V2 /\ pc = "break_lookup")
      ~> (V2 /\ (result["break_snapmirror"] = "True" \/ C35_Excused))

C35_Witness ==
    /\ V2
    /\ break_initial = "snapmirrored"
    /\ quiescePatches = 1
    /\ quiescedSeen
    /\ breakPatches = 1
    /\ result["break_snapmirror"] = "True"
    /\ ~job_id
    /\ error = "none"

\* C36: in one run of na_dbbackup_v2 the uuid that break_snapmirror
\* resolves from the destination path is the uuid that update_snapmirror
\* resolved from the source path and the destination path.
C36_UpdateAndBreakSameRelationship ==
    (RR /\ break_uuid /= 0) => break_uuid = update_uuid

C36_Witness ==
    /\ RR
    /\ break_uuid /= 0
    /\ Cardinality(rels) = 3
    /\ Cardinality({r \in rels : r.source = source_path}) = 2

\* the steps of main() of na_dbbackup_v2 that talk to the controller
ControlSteps == {"validate_source_volume", "get_destination_path",
                 "update_snapmirror", "break_snapmirror"}

\* C37: in na_dbbackup_v2 no step that talks to the controller ends with
\* an exception: each returns True or a failure value, and after a
\* failure value main() is on its abort path.
C37_RequestFailuresBecomeReturnValues ==
    V2 => \A s \in ControlSteps :
             /\ result[s] \in {"none", "True", "False"}
             /\ result[s] = "False" => pc = "returned"

C37_Witness ==
    /\ V2
    /\ pc = "returned"
    /\ result["break_snapmirror"] = "False"
    /\ error = "Transient"
    /\ quiescePatches = 1
    /\ breakPatches = 0
    /\ jobReads = 3

\* C38: when clone_lun (na_oracle_dbbackup_v3) or
\* clone_volume_and_manage_lun (lun_clone_test_v1) has ended, no clone LUN
\* is offline.
C38_NoLunLeftOffline ==
    ((V3 /\ pc = "v3_returned") \/ (T1 /\ pc \in {"t1_returned", "t1_raised"}))
      => \A c \in 1..nClone : lun_online[c]

\* C39: delete_clone sends a delete request only after it read
\* clone.is_flexclone as true; for a volume read as not a clone it prints
\* the 'not a Clone' message and sends no delete request.
C39_DeleteOnlyFlexclone ==
    DC => /\ deletes > 0 => is_flexclone = "true"
          /\ is_flexclone = "false" =>
                /\ deletes = 0
                /\ reported
          /\ reported => is_flexclone = "false"

C39_Witness ==
    /\ DC
    /\ pc = "delete_clone_returned"
    /\ deletes = 1
    /\ error = "none"

====
